---- MODULE Spec2Model ----
(***************************************************************************)
(* Model of fs/afs/addr_list.c: the AFS server address list                *)
(* (afs_alloc_addrlist, afs_merge_fs_addr4/6), the text address parser     *)
(* (afs_parse_text_addrs) and the address cursor (afs_set_vl_cursor,       *)
(* afs_iterate_addresses, afs_end_cursor, afs_put_addrlist).               *)
(*                                                                         *)
(* The state machines of the module:                                       *)
(*   Spec       - a list under construction: allocation, then merges       *)
(*   ParseSpec  - one call of afs_parse_text_addrs, loop iteration by      *)
(*                loop iteration (LiveParseSpec adds the fairness of a     *)
(*                CPU that keeps executing the call)                       *)
(*   WellSpec   - that call on texts written from known addresses          *)
(*   PortSpec   - that call on texts of addresses with port suffixes       *)
(*   CursorSpec - one caller binding, iterating and releasing a cursor     *)
(*                against the cell's lookups                               *)
(*   ConcSpec   - callers binding and releasing concurrently with the      *)
(*                replacer that swaps the cell's current list              *)
(*   RaceSpec   - two callers binding, iterating, marking and releasing    *)
(*                concurrently with the replacer                           *)
(* Integers are the host's (little-endian) view of the stored words, so    *)
(* ntohl/htons are byte swaps and memcmp compares bytes in memory order.   *)
(***************************************************************************)
EXTENDS Integers, Sequences, FiniteSets, TLC

VARIABLES
    \* ---- list under construction (Spec, ParseSpec) ----
    alist,      \* struct afs_addr_list being built, or NULL
    call,       \* the last call made on alist: [op, xdr (the words), port]
    before,     \* alist as it was right before the last call
    again,      \* TRUE iff the last call repeats the call before it
    asked,      \* the (family, address, port) asked of alist by merge calls, while it has room for them
    \* ---- afs_parse_text_addrs (ParseSpec) ----
    want,       \* the addresses the text was written from, if it was
    text,       \* the input characters, text[1..len]
    delim,      \* the delimiter (the effective one once past entry)
    p,          \* offset of the scan pointer into text, 0-based
    nr,         \* addresses counted by the first pass
    ppc,        \* position of the call
    ret,        \* what the call returned
    kfreed,     \* TRUE once the list was handed to kfree
    nmerged,    \* merge calls made by the extraction pass so far
    badseg,     \* TRUE once the extraction pass met a bad segment
    \* ---- cursors and the cell record (CursorSpec) ----
    lists,      \* the heap of lists built for the cell, by id: [usage, nr_addrs, index, scheduled]
    vl_addrs,   \* cell->vl_addrs: id of the current list, or NULL
    lock,       \* cell->vl_addrs_lock: [readers, writer]
    cellrec,    \* AFS_CELL_FL_NO_LOOKUP_YET, cell->error, and whether now < cell->dns_expiry
    ac,         \* struct afs_addr_cursor per caller
    cpc,        \* position of each caller
    loc,        \* each caller's local 'alist' in afs_set_vl_cursor
    cret,       \* the last call that returned to each caller, and its value
    hist,       \* per caller: what happened since the last bind
    rpc,        \* position of the replacer
    rold        \* the replacer's 'old' list

lvars == <<alist, call, before, again, asked>>
pvars == <<want, text, delim, p, nr, ppc, ret, kfreed, nmerged, badseg>>
cvars == <<lists, vl_addrs, lock, cellrec, ac, cpc, loc, cret, hist, rpc, rold>>
vars  == <<alist, call, before, again, asked,
           want, text, delim, p, nr, ppc, ret, kfreed, nmerged, badseg,
           lists, vl_addrs, lock, cellrec, ac, cpc, loc, cret, hist, rpc, rold>>

\* a null pointer: list ids start at 1
NULL == 0

\* the null struct afs_addr_list pointer where the model holds the struct itself
NoList == [null |-> TRUE]

-----------------------------------------------------------------------------
(* Bounds of the model *)

\* AFS_MAX_ADDRESSES is sizeof(unsigned long) * 8 in the kernel headers; the
\* model scales the ceiling down so that lists fill up and the clamp happens.
AFS_MAX_ADDRESSES == 4

\* the input texts of the parser are made of at most this many pieces
MaxPieces == 4

\* addresses a text is written from
MaxWell == 3

\* addresses a text with port suffixes of all kinds is written from
MaxPorted == 2

\* lists the cell's lookups build while one caller runs
MaxLists == 1

\* lists the cell's lookups build, and the addresses of a list, while the
\* callers bind and release concurrently
ConcLists == 3
ConcMaxNr == 1

\* lists the cell's lookups build, and the addresses of a list, while two
\* callers bind, iterate and release concurrently
RaceLists == 1
RaceMaxNr == 2

-----------------------------------------------------------------------------
(* Program constants *)

SizeofSin  == 16      \* sizeof(struct sockaddr_in)
SizeofSin6 == 28      \* sizeof(struct sockaddr_in6)
VL_SERVICE == 52
AFS_VL_PORT == 7003

-----------------------------------------------------------------------------
(* Byte order and memory helpers *)

Min(S) == CHOOSE x \in S : \A y \in S : x <= y

\* byte k (memory order) of a 32-bit word as the little-endian host loads it
ByteOf(w, k) ==
    CASE k = 0 -> w % 256
      [] k = 1 -> (w \div 256) % 256
      [] k = 2 -> (w \div 65536) % 256
      [] k = 3 -> (w \div 16777216) % 256

ntohl(x) ==
    ByteOf(x, 0) * 16777216 + ByteOf(x, 1) * 65536 + ByteOf(x, 2) * 256 + ByteOf(x, 3)

htons(x) == (x % 256) * 256 + ((x \div 256) % 256)

ntohs(x) == (x % 256) * 256 + ((x \div 256) % 256)

\* the 16 bytes of an IPv6 address held as __be32 x[4]
Bytes16(x) == [k \in 0..15 |-> ByteOf(x[(k \div 4) + 1], k % 4)]

\* memcmp(a, b, 16): the difference of the first pair of bytes that differ
memcmp(a, b) ==
    LET ba == Bytes16(a)
        bb == Bytes16(b)
        d  == {k \in 0..15 : ba[k] # bb[k]}
    IN  IF d = {} THEN 0 ELSE ba[Min(d)] - bb[Min(d)]

ZeroIn6 == <<0, 0, 0, 0>>

-----------------------------------------------------------------------------
(* afs_alloc_addrlist *)

\* one slot as the allocation loop leaves it: kzalloc'ed, then templated.
\* sin and sin6 share storage: family and port coincide, s_addr lies over
\* sin6_flowinfo, sin6_addr over sin_zero and beyond.
TemplateSlot(service, port) ==
    [srx_family     |-> "AF_RXRPC",
     srx_service    |-> service,
     transport_type |-> "SOCK_DGRAM",
     transport_len  |-> SizeofSin6,
     family         |-> "AF_INET6",
     port           |-> htons(port),
     s_addr         |-> 0,
     sin6_addr      |-> ZeroIn6]

ClampNr(n) == IF n > AFS_MAX_ADDRESSES THEN AFS_MAX_ADDRESSES ELSE n

afs_alloc_addrlist(n, service, port) ==
    [usage     |-> 1,
     max_addrs |-> ClampNr(n),
     nr_addrs  |-> 0,
     nr_ipv4   |-> 0,
     index     |-> 0,
     addrs     |-> [i \in 0..(ClampNr(n) - 1) |-> TemplateSlot(service, port)]]

-----------------------------------------------------------------------------
(* afs_merge_fs_addr4 / afs_merge_fs_addr6 *)

ListFullOffByOne(l) == l.nr_addrs > l.max_addrs

\* the capacity guard both merges start with
ListFull(l) == l.nr_addrs >= l.max_addrs

\* memmove(addrs + i + 1, addrs + i, sizeof(addrs[0]) * (n - i)); a write
\* past the array shows as a slot outside 0..max_addrs-1
Memmove(addrs, i, n) ==
    [k \in (DOMAIN addrs) \cup ((i + 1)..n) |->
        IF k \in (i + 1)..n THEN addrs[k - 1] ELSE addrs[k]]

\* addrs[i] = s, growing the array when i lies outside it
StoreSlot(addrs, i, s) ==
    [k \in (DOMAIN addrs) \cup {i} |-> IF k = i THEN s ELSE addrs[k]]

Hit4NoSwap(l, xdr, port, k) ==
    /\ ntohl(xdr) = ntohl(l.addrs[k].s_addr)
    /\ port = l.addrs[k].port

\* the duplicate test of the IPv4 scan
Hit4(l, xdr, port, k) ==
    /\ ntohl(xdr) = ntohl(l.addrs[k].s_addr)
    /\ port = ntohs(l.addrs[k].port)

Brk4Raw(l, xdr, port, k) ==
    \/ xdr = l.addrs[k].s_addr /\ port < ntohs(l.addrs[k].port)
    \/ xdr < l.addrs[k].s_addr

\* the two break tests of the IPv4 scan
Brk4(l, xdr, port, k) ==
    \/ ntohl(xdr) = ntohl(l.addrs[k].s_addr) /\ port < ntohs(l.addrs[k].port)
    \/ ntohl(xdr) < ntohl(l.addrs[k].s_addr)

WriteSin4NoTag(s, xdr, port) ==
    [s EXCEPT !.port = htons(port), !.s_addr = xdr]

\* the stores into the chosen slot, IPv4
WriteSin4(s, xdr, port) ==
    [s EXCEPT !.transport_len = SizeofSin,
              !.family = "AF_INET",
              !.port = htons(port),
              !.s_addr = xdr]

afs_merge_fs_addr4(l, xdr, port) ==
    IF ListFull(l) THEN l
    ELSE
      LET stops == {k \in 0..(l.nr_ipv4 - 1) : Hit4(l, xdr, port, k) \/ Brk4(l, xdr, port, k)}
          i     == IF stops = {} THEN l.nr_ipv4 ELSE Min(stops)
      IN  IF stops # {} /\ Hit4(l, xdr, port, i) THEN l
          ELSE
            LET moved == IF i < l.nr_addrs THEN Memmove(l.addrs, i, l.nr_addrs) ELSE l.addrs
                slot  == IF i \in DOMAIN moved THEN moved[i] ELSE TemplateSlot(0, 0)
            IN  [l EXCEPT !.addrs = StoreSlot(moved, i, WriteSin4(slot, xdr, port)),
                          !.nr_ipv4 = l.nr_ipv4 + 1,
                          !.nr_addrs = l.nr_addrs + 1]

\* the duplicate test of the IPv6 scan
Hit6(l, xdr, port, k) ==
    /\ memcmp(xdr, l.addrs[k].sin6_addr) = 0
    /\ port = ntohs(l.addrs[k].port)

Brk6PortBlind(l, xdr, port, k) == memcmp(xdr, l.addrs[k].sin6_addr) < 0

\* the two break tests of the IPv6 scan
Brk6(l, xdr, port, k) ==
    \/ memcmp(xdr, l.addrs[k].sin6_addr) = 0 /\ port < ntohs(l.addrs[k].port)
    \/ memcmp(xdr, l.addrs[k].sin6_addr) < 0

\* the stores into the chosen slot, IPv6
WriteSin6(s, xdr, port) ==
    [s EXCEPT !.transport_len = SizeofSin6,
              !.family = "AF_INET6",
              !.port = htons(port),
              !.sin6_addr = xdr]

afs_merge_fs_addr6(l, xdr, port) ==
    IF ListFull(l) THEN l
    ELSE
      LET stops == {k \in l.nr_ipv4..(l.nr_addrs - 1) : Hit6(l, xdr, port, k) \/ Brk6(l, xdr, port, k)}
          i     == IF stops = {} THEN l.nr_addrs ELSE Min(stops)
      IN  IF stops # {} /\ Hit6(l, xdr, port, i) THEN l
          ELSE
            LET moved == IF i < l.nr_addrs THEN Memmove(l.addrs, i, l.nr_addrs) ELSE l.addrs
                slot  == IF i \in DOMAIN moved THEN moved[i] ELSE TemplateSlot(0, 0)
            IN  [l EXCEPT !.addrs = StoreSlot(moved, i, WriteSin6(slot, xdr, port)),
                          !.nr_addrs = l.nr_addrs + 1]

-----------------------------------------------------------------------------
(* The cursor, the cell record and the heap of published lists: the state
   before any caller or lookup has run *)

Callers == {1, 2, 3}

\* &alist->addrs[index] of list l; <<NULL, 0>> is the null pointer
NoAddr == <<NULL, 0>>

\* a struct afs_addr_cursor nobody has bound yet
NoCursor ==
    [alist |-> NULL, addr |-> NoAddr, start |-> 0, index |-> 0, error |-> "0",
     begun |-> FALSE, responded |-> FALSE]

\* per caller, since the last successful bind: afs_iterate_addresses calls
\* made, whether mark_responded was called at all, whether it was called
\* after the last afs_iterate_addresses that returned true, and the list's
\* index as the bind read it
NoHist == [ncalls |-> 0, marked |-> FALSE, marked_since |-> FALSE, bindidx |-> 0]

NoRet == [fn |-> "none", val |-> "none"]

CursorIdle ==
    /\ lists = <<>> /\ vl_addrs = NULL
    /\ lock = [readers |-> {}, writer |-> FALSE]
    /\ cellrec = [no_lookup_yet |-> TRUE, error |-> "0", fresh |-> FALSE]
    /\ ac = [c \in Callers |-> NoCursor]
    /\ cpc = [c \in Callers |-> "idle"]
    /\ loc = [c \in Callers |-> NULL]
    /\ cret = [c \in Callers |-> NoRet]
    /\ hist = [c \in Callers |-> NoHist]
    /\ rpc = "idle" /\ rold = NULL

-----------------------------------------------------------------------------
(* Characters, in4_pton and in6_pton (net/core/utils.c) *)

NUL == "NUL"

HexVal ==
    ("0" :> 0) @@ ("1" :> 1) @@ ("2" :> 2) @@ ("3" :> 3) @@ ("4" :> 4) @@
    ("5" :> 5) @@ ("6" :> 6) @@ ("7" :> 7) @@ ("8" :> 8) @@ ("9" :> 9) @@
    ("a" :> 10) @@ ("b" :> 11) @@ ("c" :> 12) @@ ("d" :> 13) @@ ("e" :> 14) @@
    ("f" :> 15)

isdigit(c) == c \in DOMAIN HexVal /\ HexVal[c] < 10

\* the character at offset s of h, '\0' once the length is used up
CharAt(h, s) == IF s < Len(h) THEN h[s + 1] ELSE NUL

\* xdigit2bin(c, -1): the class bits of a character; with delim == -1 every
\* character that is no hex digit, ':' or '.' counts as the delimiter
xdigit2bin(c) ==
    IF c = NUL THEN {"DELIM"}
    ELSE IF c = ":" THEN {"COLON_1", "COLON_2", "COLON_1_2"}
    ELSE IF c = "." THEN {"DOT"}
    ELSE IF c \in DOMAIN HexVal
         THEN IF HexVal[c] < 10 THEN {"XDIGIT", "DIGIT"} ELSE {"XDIGIT"}
    ELSE {"DELIM"}

PtonFail(s) == [ok |-> FALSE, dst |-> <<>>, stop |-> s]

RECURSIVE In4Loop(_, _, _, _, _, _)
In4Loop(h, s, i, w, nd, dbuf) ==
    LET c == xdigit2bin(CharAt(h, s)) IN
    IF c \cap {"DIGIT", "DOT", "DELIM", "COLON_1"} = {} THEN PtonFail(s)
    ELSE IF c \cap {"DOT", "DELIM", "COLON_1"} # {} THEN
        IF ~nd THEN PtonFail(s)
        ELSE IF "DOT" \notin c
             THEN IF i + 1 # 4 THEN PtonFail(s)
                  ELSE [ok |-> TRUE, dst |-> Append(dbuf, w % 256), stop |-> s]
        ELSE IF i + 1 >= 4 THEN PtonFail(s)
        ELSE In4Loop(h, s + 1, i + 1, 0, FALSE, Append(dbuf, w % 256))
    ELSE
        LET w2 == w * 10 + HexVal[CharAt(h, s)] IN
        IF w2 > 255 THEN PtonFail(s)
        ELSE In4Loop(h, s + 1, i, w2, TRUE, dbuf)

\* in4_pton(src, srclen, dst, -1, &stop) on the srclen characters h
in4_pton(h) == In4Loop(h, 0, 0, 0, FALSE, <<>>)

ColonMask == {"COLON_1", "COLON_2", "COLON_1_2"}

\* the tail of in6_pton: spread the words around the "::" gap
In6Finish(dbuf, d, dc, s) ==
    [ok   |-> TRUE,
     stop |-> s,
     dst  |-> IF dc < 0 THEN [k \in 1..16 |-> dbuf[k - 1]]
              ELSE [k \in 1..16 |->
                      IF k - 1 < dc THEN dbuf[k - 1]
                      ELSE IF k - 1 >= 16 - (d - dc) THEN dbuf[dc + (k - 1) - (16 - (d - dc))]
                      ELSE 0]]

\* the state after a ':' according to the colons the old state asked for
In6AfterColon(state, d) ==
    LET cm == state \cap ColonMask IN
    IF cm = {"COLON_2"} THEN
        {"XDIGIT", "DELIM"} \cup (IF d >= 16 THEN {"NULL"} ELSE {})
    ELSE IF cm = {"COLON_1", "COLON_1_2"} THEN {"XDIGIT", "COLON_2"}
    ELSE IF cm = {"COLON_1"} THEN {"XDIGIT"}
    ELSE IF cm = {"COLON_1_2"} THEN {"COLON_2"}
    ELSE {}

\* the label cont: of in6_pton
In6Cont(state, d, dc) ==
    LET st1 == IF (dc >= 0 /\ d + 4 < 16) \/ d + 4 = 16 THEN state \cup {"DOT"} ELSE state
    IN  IF d >= 16 THEN st1 \ ({"XDIGIT"} \cup ColonMask) ELSE st1

\* the state after a hex digit
In6AfterDigit(w, d, dc) ==
    LET st0 == {"COLON_1", "DELIM"} \cup (IF w < 4096 THEN {"XDIGIT"} ELSE {})
        st1 == IF dc < 0 /\ d + 2 < 16 THEN (st0 \cup {"COLON_1_2"}) \ {"DELIM"} ELSE st0
    IN  IF d + 2 >= 16 THEN st1 \ {"COLON_1", "COLON_1_2"} ELSE st1

RECURSIVE In6Loop(_, _, _, _, _, _, _, _)
In6Loop(h, s, state, w, d, dc, dbuf, tok) ==
    LET ch == CharAt(h, s)
        c  == xdigit2bin(ch)
    IN
    IF c \cap state = {} THEN PtonFail(s)
    ELSE IF c \cap ({"DELIM"} \cup ColonMask) # {} THEN
        LET stored == "NULL" \notin state
            dbuf2  == IF stored
                      THEN [k \in (DOMAIN dbuf) \cup {d, d + 1} |->
                              IF k = d THEN (w \div 256) % 256
                              ELSE IF k = d + 1 THEN w % 256
                              ELSE dbuf[k]]
                      ELSE dbuf
            d2     == IF stored THEN d + 2 ELSE d
        IN  IF "DELIM" \in c THEN In6Finish(dbuf2, d2, dc, s)
            ELSE LET dc2 == IF state \cap ColonMask = {"COLON_2"} THEN d2 ELSE dc
                 IN  In6Loop(h, s + 1, In6Cont(In6AfterColon(state, d2), d2, dc2),
                             0, d2, dc2, dbuf2, s + 1)
    ELSE IF "DOT" \in c THEN
        LET t0 == IF tok < 0 THEN 0 ELSE tok
            r  == in4_pton(SubSeq(h, t0 + 1, Len(h)))
        IN  IF r.ok
            THEN In6Finish([k \in (DOMAIN dbuf) \cup (d..(d + 3)) |->
                              IF k \in d..(d + 3) THEN r.dst[k - d + 1] ELSE dbuf[k]],
                           d + 4, dc, t0 + r.stop)
            ELSE PtonFail(t0 + r.stop)
    ELSE
        LET w2 == (w * 16 + HexVal[ch]) % 65536
        IN  In6Loop(h, s + 1, In6Cont(In6AfterDigit(w2, d, dc), d, dc), w2, d, dc, dbuf, tok)

\* in6_pton(src, srclen, dst, -1, &stop) on the srclen characters h
in6_pton(h) ==
    In6Loop(h, 0, {"COLON_1_2", "XDIGIT", "NULL"}, 0, 0, -1, [k \in 0..15 |-> 0], -1)

-----------------------------------------------------------------------------
(* Spec: a list under construction *)

\* what in4_pton/in6_pton leave in x[]: the address bytes in memory order,
\* read back as little-endian words
In4(b0, b1, b2, b3) == b0 + 256 * b1 + 65536 * b2 + 16777216 * b3

\* 10.0.0.1, 10.0.1.0 and 9.0.0.2: host order and raw word order disagree
Addr4Domain == {In4(10, 0, 0, 1), In4(10, 0, 1, 0), In4(9, 0, 0, 2)}

\* ::1 and ::100: byte order and word order disagree
Addr6Domain == {<<0, 0, 0, In4(0, 0, 0, 1)>>, <<0, 0, 0, In4(0, 0, 1, 0)>>}

\* 1 and 256: host order and network order disagree
PortDomain == {1, 256}

NoCall == [op |-> "none", xdr |-> <<>>, port |-> 0]

ParseIdle ==
    /\ want = <<>> /\ text = <<>> /\ delim = "," /\ p = 0 /\ nr = 0 /\ ppc = "idle"
    /\ ret = "none" /\ kfreed = FALSE /\ nmerged = 0 /\ badseg = FALSE

ListIdle ==
    /\ alist = NoList /\ call = NoCall /\ before = NoList /\ again = FALSE
    /\ asked = {}

\* stands for more distinct requests than the list has room for
TooMany == {[family |-> "none", x |-> <<>>, port |-> 0]}

\* the requests made of list l so far, with request q made
Ask(l, q) ==
    IF asked = TooMany \/ Cardinality(asked \cup {q}) > l.max_addrs
    THEN TooMany
    ELSE asked \cup {q}

Init ==
    /\ ListIdle
    /\ ParseIdle
    /\ CursorIdle

\* afs_alloc_addrlist(n, service, port); kzalloc may fail
Alloc ==
    /\ alist = NoList
    /\ \E n \in 0..(AFS_MAX_ADDRESSES + 1) :
         /\ \/ alist' = afs_alloc_addrlist(n, VL_SERVICE, AFS_VL_PORT)
            \/ alist' = NoList
         /\ call' = [op |-> "alloc", xdr |-> <<n>>, port |-> AFS_VL_PORT]
    /\ before' = alist
    /\ again' = FALSE
    /\ asked' = {}
    /\ UNCHANGED <<pvars, cvars>>

Merge4 ==
    /\ alist # NoList
    /\ \E xdr \in Addr4Domain, port \in PortDomain :
         /\ alist' = afs_merge_fs_addr4(alist, xdr, port)
         /\ call' = [op |-> "merge4", xdr |-> <<xdr>>, port |-> port]
         /\ again' = (call = [op |-> "merge4", xdr |-> <<xdr>>, port |-> port])
         /\ asked' = Ask(alist, [family |-> "AF_INET", x |-> <<xdr>>, port |-> port])
    /\ before' = alist
    /\ UNCHANGED <<pvars, cvars>>

Merge6 ==
    /\ alist # NoList
    /\ \E xdr \in Addr6Domain, port \in PortDomain :
         /\ alist' = afs_merge_fs_addr6(alist, xdr, port)
         /\ call' = [op |-> "merge6", xdr |-> xdr, port |-> port]
         /\ again' = (call = [op |-> "merge6", xdr |-> xdr, port |-> port])
         /\ asked' = Ask(alist, [family |-> "AF_INET6", x |-> xdr, port |-> port])
    /\ before' = alist
    /\ UNCHANGED <<pvars, cvars>>

Next == Alloc \/ Merge4 \/ Merge6

Spec == Init /\ [][Next]_vars

-----------------------------------------------------------------------------
(* Properties of the list under construction *)

Merges == {"merge4", "merge6"}

\* (address, port) of a populated IPv4 slot, host order
Addr4(l, k) == ntohl(l.addrs[k].s_addr)
PortAt(l, k) == ntohs(l.addrs[k].port)

Less4(l, i, j) ==
    \/ Addr4(l, i) < Addr4(l, j)
    \/ Addr4(l, i) = Addr4(l, j) /\ PortAt(l, i) < PortAt(l, j)

Less6(l, i, j) ==
    \/ memcmp(l.addrs[i].sin6_addr, l.addrs[j].sin6_addr) < 0
    \/ /\ memcmp(l.addrs[i].sin6_addr, l.addrs[j].sin6_addr) = 0
       /\ PortAt(l, i) < PortAt(l, j)

\* C2: after any sequence of merges on a freshly allocated list the IPv4
\* segment addrs[0..nr_ipv4) is strictly ascending by (host-order address,
\* port), the IPv6 segment addrs[nr_ipv4..nr_addrs) is strictly ascending by
\* (address bytes, port), and no segment holds an (address, port) twice.
C2_SegmentsStrictlyAscending ==
    alist # NoList =>
      /\ \A i \in 0..(alist.nr_ipv4 - 2) : Less4(alist, i, i + 1)
      /\ \A i \in alist.nr_ipv4..(alist.nr_addrs - 2) : Less6(alist, i, i + 1)
      /\ \A i, j \in 0..(alist.nr_ipv4 - 1) :
           i # j => <<Addr4(alist, i), PortAt(alist, i)>> # <<Addr4(alist, j), PortAt(alist, j)>>
      /\ \A i, j \in alist.nr_ipv4..(alist.nr_addrs - 1) :
           i # j => <<alist.addrs[i].sin6_addr, PortAt(alist, i)>>
                      # <<alist.addrs[j].sin6_addr, PortAt(alist, j)>>

\* a merge has just put an IPv4 entry in front of two segments of two
C2_Witness ==
    /\ alist # NoList
    /\ call.op = "merge4"
    /\ alist # before
    /\ alist.nr_ipv4 = 2
    /\ alist.nr_addrs = 4
    /\ alist.addrs[0].s_addr = call.xdr[1]
    /\ alist.addrs[0].port = htons(call.port)

\* C6: in every state reached by allocation and merges,
\* nr_ipv4 <= nr_addrs <= max_addrs <= AFS_MAX_ADDRESSES, the array still has
\* exactly the slots 0..max_addrs-1 (no merge wrote past it), the first
\* nr_ipv4 populated slots are tagged IPv4 with a sin-sized transport_len and
\* the populated slots from nr_ipv4 on are tagged IPv6.
C6_ListShape ==
    alist # NoList =>
      /\ alist.nr_ipv4 <= alist.nr_addrs
      /\ alist.nr_addrs <= alist.max_addrs
      /\ alist.max_addrs <= AFS_MAX_ADDRESSES
      /\ DOMAIN alist.addrs = 0..(alist.max_addrs - 1)
      /\ \A i \in 0..(alist.nr_ipv4 - 1) :
           alist.addrs[i].family = "AF_INET" /\ alist.addrs[i].transport_len = SizeofSin
      /\ \A i \in alist.nr_ipv4..(alist.nr_addrs - 1) :
           alist.addrs[i].family = "AF_INET6" /\ alist.addrs[i].transport_len = SizeofSin6

\* a clamped list filled to the ceiling with both families, the last IPv4
\* entry having been written over a slot an IPv6 entry was moved out of
C6_Witness ==
    /\ alist # NoList
    /\ alist.max_addrs = AFS_MAX_ADDRESSES
    /\ alist.nr_addrs = alist.max_addrs
    /\ alist.nr_ipv4 >= 1
    /\ alist.nr_ipv4 < alist.nr_addrs
    /\ call.op = "merge4"
    /\ before.nr_addrs > before.nr_ipv4
    /\ alist.nr_ipv4 = before.nr_ipv4 + 1

\* C8: a merge (either entry point, any address and port) called on a full
\* list leaves the whole list, counts and entries and their order, as it was.
C8_FullListUnchanged ==
    (call.op \in Merges /\ before.nr_addrs = before.max_addrs) => alist = before

\* a merge of a pair the full list does not hold was just refused
C8_Witness ==
    /\ call.op = "merge4"
    /\ before.nr_addrs = before.max_addrs
    /\ before.max_addrs >= 2
    /\ \A k \in 0..(before.nr_ipv4 - 1) : ~Hit4(before, call.xdr[1], call.port, k)
    /\ alist = before

\* C9: merging a pair a second time right after merging it once leaves the
\* list exactly as the first merge left it, for both entry points.
C9_MergeTwiceIsMergeOnce ==
    (call.op \in Merges /\ again) => alist = before

\* the same pair was merged twice in a row into a list with room left, and
\* the first of the two merges had inserted it
C9_Witness ==
    /\ call.op = "merge4"
    /\ again
    /\ alist.nr_addrs < alist.max_addrs
    /\ alist.nr_ipv4 >= 2
    /\ \E k \in 0..(alist.nr_ipv4 - 1) : Hit4(alist, call.xdr[1], call.port, k)

-----------------------------------------------------------------------------
(* afs_parse_text_addrs *)

\* memchr(text + from, c, end - (text + from)): the offset found, or -1
memchr(t, c, from) ==
    LET S == {k \in from..(Len(t) - 1) : t[k + 1] = c}
    IN  IF S = {} THEN -1 ELSE Min(S)

EffectiveDelimCommaOnly(t, d) ==
    IF d = ":" /\ memchr(t, ",", 0) # -1 THEN "," ELSE d

\* the delimiter after the disambiguation at entry
EffectiveDelim(t, d) ==
    IF d = ":" /\ (memchr(t, ",", 0) # -1 \/ memchr(t, ".", 0) = -1) THEN "," ELSE d

\* the end of one iteration of the counting loop from offset pp on: find the
\* next delimiter, step over it, test p < end
CountAfterSeg(t, d, pp, n) ==
    LET m == memchr(t, d, pp) IN
    IF m = -1 THEN [next |-> "alloc", p |-> pp, nr |-> n]
    ELSE IF m + 1 < Len(t) THEN [next |-> "count", p |-> m + 1, nr |-> n]
    ELSE [next |-> "alloc", p |-> m + 1, nr |-> n]

\* one iteration of the counting loop, entered with pp < end
CountIter(t, d, pp, n) ==
    LET c == t[pp + 1] IN
    IF c = NUL THEN [next |-> "inval", p |-> pp, nr |-> n]
    ELSE IF c = d THEN [next |-> "count", p |-> pp, nr |-> n]
    ELSE IF c = "[" THEN
        IF pp + 1 = Len(t) THEN [next |-> "inval", p |-> pp + 1, nr |-> n + 1]
        ELSE LET r == memchr(t, "]", pp + 1) IN
             IF r = -1 THEN [next |-> "inval", p |-> pp + 1, nr |-> n + 1]
             ELSE IF r + 1 >= Len(t) THEN [next |-> "alloc", p |-> r + 1, nr |-> n + 1]
             ELSE CountAfterSeg(t, d, r + 1, n + 1)
    ELSE CountAfterSeg(t, d, pp, n + 1)

Bad(pp) == [kind |-> "bad", p |-> pp, family |-> "none", x |-> <<>>, xport |-> 0]

RECURSIVE PortLoopOffByOne(_, _, _)
PortLoopOffByOne(t, pp, xport) ==
    LET x2 == xport * 10 + HexVal[t[pp + 1]] IN
    IF x2 > 65536 THEN [ok |-> FALSE, p |-> pp, xport |-> x2]
    ELSE IF pp + 1 < Len(t) /\ isdigit(t[pp + 2]) THEN PortLoopOffByOne(t, pp + 1, x2)
    ELSE [ok |-> TRUE, p |-> pp + 1, xport |-> x2]

\* the digits of a "+1234" port, from the first digit at offset pp
RECURSIVE PortLoop(_, _, _)
PortLoop(t, pp, xport) ==
    LET x2 == xport * 10 + HexVal[t[pp + 1]] IN
    IF x2 > 65535 THEN [ok |-> FALSE, p |-> pp, xport |-> x2]
    ELSE IF pp + 1 < Len(t) /\ isdigit(t[pp + 2]) THEN PortLoop(t, pp + 1, x2)
    ELSE [ok |-> TRUE, p |-> pp + 1, xport |-> x2]

\* what follows the host: nothing, a port, or the delimiter
ExtractTail(t, d, pp, port) ==
    IF pp >= Len(t) THEN [ok |-> TRUE, p |-> pp, xport |-> port]
    ELSE IF t[pp + 1] = "+" THEN
        IF pp + 1 >= Len(t) \/ ~isdigit(t[pp + 2]) THEN [ok |-> FALSE, p |-> pp + 1, xport |-> 0]
        ELSE PortLoop(t, pp + 1, 0)
    ELSE IF t[pp + 1] = d THEN [ok |-> TRUE, p |-> pp + 1, xport |-> port]
    ELSE [ok |-> FALSE, p |-> pp, xport |-> port]

\* the end of the host of an unbracketed segment: the first '+' or delimiter
HostEnd(t, d, pp) ==
    LET S == {k \in pp..(Len(t) - 1) : t[k + 1] = "+" \/ t[k + 1] = d}
    IN  IF S = {} THEN Len(t) ELSE Min(S)

Words4Reversed(dst) == <<In4(dst[4], dst[3], dst[2], dst[1])>>

\* x[] as the pton routines leave it
Words4(dst) == <<In4(dst[1], dst[2], dst[3], dst[4])>>
Words6(dst) == [k \in 1..4 |-> In4(dst[4 * k - 3], dst[4 * k - 2], dst[4 * k - 1], dst[4 * k])]

\* one iteration of the extraction loop, entered with pp < end.  With a '['
\* that has no ']' behind it, q is NULL and q - p is no length of the text:
\* whatever in4_pton and in6_pton make of it, stop is a pointer they were
\* given or advanced, never NULL, so stop != q and the segment is bad.
ExtractIter(t, d, pp, port) ==
    IF t[pp + 1] = d THEN [kind |-> "skip", p |-> pp + 1, family |-> "none", x |-> <<>>, xport |-> 0]
    ELSE
      LET br == t[pp + 1] = "["
          p1 == IF br THEN pp + 1 ELSE pp
          q  == IF br THEN memchr(t, "]", p1) ELSE HostEnd(t, d, pp)
      IN  IF q = -1 THEN Bad(p1)
          ELSE
            LET h  == SubSeq(t, p1 + 1, q)
                r4 == in4_pton(h)
                r6 == in6_pton(h)
                r  == IF r4.ok THEN r4 ELSE r6
                p2 == IF q < Len(t) /\ t[q + 1] = "]" THEN q + 1 ELSE q
                tl == ExtractTail(t, d, p2, port)
            IN  IF ~r4.ok /\ ~r6.ok THEN Bad(p1)
                ELSE IF p1 + r.stop # q THEN Bad(p1)
                ELSE IF ~tl.ok THEN Bad(tl.p)
                ELSE [kind   |-> "merge",
                      p      |-> tl.p,
                      family |-> IF r4.ok THEN "AF_INET" ELSE "AF_INET6",
                      x      |-> IF r4.ok THEN Words4(r4.dst) ELSE Words6(r6.dst),
                      xport  |-> tl.xport]

-----------------------------------------------------------------------------
(* ParseSpec: one call of afs_parse_text_addrs(text, len, delim, VL_SERVICE,
   AFS_VL_PORT) *)

\* what the texts are made of: an IPv4 host, an IPv6 host, and loose
\* characters of the address alphabet
Pieces ==
    {<<"1", ".", "2", ".", "3", ".", "4">>, <<":", ":", "1">>,
     <<",">>, <<":">>, <<"[">>, <<"]">>, <<"+">>, <<"7">>, <<"z">>, <<NUL>>}

RECURSIVE Flatten(_)
Flatten(ps) == IF ps = <<>> THEN <<>> ELSE Head(ps) \o Flatten(Tail(ps))

Texts == UNION {{Flatten(ps) : ps \in [1..n -> Pieces]} : n \in 0..MaxPieces}

ParseInit ==
    /\ ListIdle
    /\ CursorIdle
    /\ want = <<>>
    /\ text \in Texts
    /\ delim \in {",", ":", ";"}
    /\ p = 0 /\ nr = 0 /\ ppc = "start" /\ ret = "none"
    /\ kfreed = FALSE /\ nmerged = 0 /\ badseg = FALSE

\* lines 78-82: the empty text, the delimiter
ParseEnter ==
    /\ ppc = "start"
    /\ IF Len(text) = 0
       THEN ppc' = "done" /\ ret' = "EDESTADDRREQ" /\ UNCHANGED delim
       ELSE ppc' = "count" /\ delim' = EffectiveDelim(text, delim) /\ UNCHANGED ret
    /\ UNCHANGED <<want, text, p, nr, kfreed, nmerged, badseg, lvars, cvars>>

\* lines 86-108: one iteration of the counting loop
CountStep ==
    /\ ppc = "count"
    /\ LET it == CountIter(text, delim, p, nr) IN
         /\ p' = it.p
         /\ nr' = it.nr
         /\ IF it.next = "inval"
            THEN ppc' = "done" /\ ret' = "EINVAL"
            ELSE ppc' = it.next /\ UNCHANGED ret
    /\ UNCHANGED <<want, text, delim, kfreed, nmerged, badseg, lvars, cvars>>

\* lines 112-117: the allocation, which may fail
ParseAlloc ==
    /\ ppc = "alloc"
    /\ \/ /\ alist' = afs_alloc_addrlist(nr, VL_SERVICE, AFS_VL_PORT)
          /\ ppc' = "extract" /\ p' = 0 /\ UNCHANGED ret
       \/ /\ alist' = NoList
          /\ ppc' = "done" /\ ret' = "ENOMEM" /\ UNCHANGED p
    /\ UNCHANGED <<want, text, delim, nr, kfreed, nmerged, badseg, call, before, again, asked, cvars>>

BadAddressLeak ==
    /\ ppc' = "done"
    /\ ret' = "EINVAL"
    /\ UNCHANGED <<alist, kfreed>>

\* lines 183-185: the label bad_address
BadAddress ==
    /\ kfreed' = TRUE
    /\ ppc' = "done"
    /\ ret' = "EINVAL"
    /\ UNCHANGED alist

\* lines 118-181: one iteration of the extraction loop, and the return
ExtractStep ==
    /\ ppc = "extract"
    /\ LET it == ExtractIter(text, delim, p, AFS_VL_PORT) IN
         /\ p' = it.p
         /\ badseg' = (it.kind = "bad")
         /\ nmerged' = IF it.kind = "merge" THEN nmerged + 1 ELSE nmerged
         /\ IF it.kind = "bad" THEN BadAddress
            ELSE /\ alist' = IF it.kind = "skip" THEN alist
                             ELSE IF it.family = "AF_INET"
                                  THEN afs_merge_fs_addr4(alist, it.x[1], it.xport)
                                  ELSE afs_merge_fs_addr6(alist, it.x, it.xport)
                 /\ IF it.p < Len(text)
                    THEN ppc' = "extract" /\ UNCHANGED ret
                    ELSE ppc' = "done" /\ ret' = "LIST"
                 /\ UNCHANGED kfreed
    /\ UNCHANGED <<want, text, delim, nr, call, before, again, asked, cvars>>

ParseNext == ParseEnter \/ CountStep \/ ParseAlloc \/ ExtractStep

ParseSpec == ParseInit /\ [][ParseNext]_vars

\* the CPU keeps executing the call until it returns
LiveParseSpec == ParseInit /\ [][ParseNext]_vars /\ WF_vars(ParseNext)

-----------------------------------------------------------------------------
(* Properties of afs_parse_text_addrs *)

\* C1: afs_parse_text_addrs terminates for every non-empty text over the
\* address alphabet and every delimiter, texts that start with the delimiter
\* or hold two delimiters in a row included: both passes reach their end and
\* the call returns a list or an error.
C1_ParseTerminates == <>(ppc = "done")

\* C1, in the form a finite run refutes: the call has returned, or its next
\* step changes its state.  The call is deterministic but for the allocation,
\* so a state whose only step leaves everything as it is, is a state the call
\* never leaves: there it neither reaches the end of a pass nor returns.
C1_ReturnsOrAdvances == ppc = "done" \/ ENABLED <<ParseNext>>_vars

\* C7: parsing is all-or-nothing: when the extraction pass meets a bad
\* segment, after any number of merges, the call returns -EINVAL and the list
\* allocated after the counting pass has been freed; a list is returned only
\* when no segment was bad, and is not freed; and a list that was allocated
\* and not returned has been freed.
C7_AllOrNothing ==
    ppc = "done" =>
      /\ badseg => (ret = "EINVAL" /\ kfreed)
      /\ ret = "LIST" => (~badseg /\ ~kfreed /\ alist # NoList)
      /\ (alist # NoList /\ ret # "LIST") => kfreed

\* a bad segment met after an address had already been merged into the list
C7_Witness ==
    /\ ppc = "done"
    /\ badseg
    /\ nmerged >= 1
    /\ alist # NoList
    /\ alist.nr_addrs >= 1

-----------------------------------------------------------------------------
(* Reference counts: afs_get_addrlist, afs_put_addrlist *)

\* afs_get_addrlist: refcount_inc, which refuses to leave zero
afs_get_addrlist(ls, l) ==
    IF ls[l].usage > 0 THEN [ls EXCEPT ![l].usage = @ + 1] ELSE ls

PutNoTest(ls, l) ==
    IF l = NULL THEN ls
    ELSE [ls EXCEPT ![l].usage = IF @ > 0 THEN @ - 1 ELSE 0, ![l].scheduled = @ + 1]

\* afs_put_addrlist: refcount_dec_and_test, then call_rcu(kfree) at zero;
\* 'scheduled' counts the call_rcu calls made for the list
afs_put_addrlist(ls, l) ==
    IF l = NULL THEN ls
    ELSE IF ls[l].usage = 0 THEN ls
    ELSE IF ls[l].usage = 1
         THEN [ls EXCEPT ![l].usage = 0, ![l].scheduled = @ + 1]
    ELSE [ls EXCEPT ![l].usage = @ - 1]

-----------------------------------------------------------------------------
(* The cell record's side (fs/afs/cell.c): the lookup that fails, the clock,
   and the replacer that builds a fresh list and swaps it in under the write
   lock *)

\* the first lookup fails: the error is cached and a retry time is set
LookupFail ==
    /\ rpc = "idle"
    /\ cellrec.no_lookup_yet
    /\ vl_addrs = NULL
    /\ cellrec' = [no_lookup_yet |-> FALSE, error |-> "cell_error", fresh |-> TRUE]
    /\ UNCHANGED <<lists, vl_addrs, lock, ac, cpc, loc, cret, hist, rpc, rold, lvars, pvars>>

\* time passes cell->dns_expiry
Expire ==
    /\ cellrec.fresh
    /\ cellrec' = [cellrec EXCEPT !.fresh = FALSE]
    /\ UNCHANGED <<lists, vl_addrs, lock, ac, cpc, loc, cret, hist, rpc, rold, lvars, pvars>>

\* a fresh list of n addresses is built (parse and merges) but not published
RBuild(minn, maxn, maxlists) ==
    /\ rpc = "idle"
    /\ Len(lists) < maxlists
    /\ \E n \in minn..maxn :
         lists' = Append(lists, [usage |-> 1, nr_addrs |-> n, index |-> 0, scheduled |-> 0])
    /\ rpc' = "wlock"
    /\ UNCHANGED <<vl_addrs, lock, cellrec, ac, cpc, loc, cret, hist, rold, lvars, pvars>>

\* write_lock(&cell->vl_addrs_lock)
RWriteLock ==
    /\ rpc = "wlock"
    /\ lock.readers = {} /\ ~lock.writer
    /\ lock' = [lock EXCEPT !.writer = TRUE]
    /\ rpc' = "swap"
    /\ UNCHANGED <<lists, vl_addrs, cellrec, ac, cpc, loc, cret, hist, rold, lvars, pvars>>

\* old = cell->vl_addrs; cell->vl_addrs = the new list; the lookup has happened
RSwap ==
    /\ rpc = "swap"
    /\ rold' = vl_addrs
    /\ vl_addrs' = Len(lists)
    /\ cellrec' = [cellrec EXCEPT !.no_lookup_yet = FALSE]
    /\ rpc' = "wunlock"
    /\ UNCHANGED <<lists, lock, ac, cpc, loc, cret, hist, lvars, pvars>>

\* write_unlock(&cell->vl_addrs_lock)
RWriteUnlock ==
    /\ rpc = "wunlock"
    /\ lock' = [lock EXCEPT !.writer = FALSE]
    /\ rpc' = "put"
    /\ UNCHANGED <<lists, vl_addrs, cellrec, ac, cpc, loc, cret, hist, rold, lvars, pvars>>

\* afs_put_addrlist(old)
RPut ==
    /\ rpc = "put"
    /\ lists' = afs_put_addrlist(lists, rold)
    /\ rold' = NULL
    /\ rpc' = "idle"
    /\ UNCHANGED <<vl_addrs, lock, cellrec, ac, cpc, loc, cret, hist, lvars, pvars>>

CellStep(maxn, maxlists) ==
    LookupFail \/ Expire \/ RBuild(0, maxn, maxlists) \/ RWriteLock \/ RSwap \/ RWriteUnlock \/ RPut

-----------------------------------------------------------------------------
(* afs_set_vl_cursor, one step per access to the cell record.  'track' says
   whether the history of the caller, his last return value included, is
   kept. *)

Ret(c, f, v, track) == IF track THEN [cret EXCEPT ![c] = [fn |-> f, val |-> v]] ELSE cret

\* line 361: the unlocked look at cell->vl_addrs
SetVlEnter(c) ==
    /\ cpc[c] = "idle"
    /\ ac[c].alist = NULL
    /\ cpc' = [cpc EXCEPT ![c] = IF vl_addrs = NULL THEN "wait" ELSE "rlock"]
    /\ UNCHANGED <<lists, vl_addrs, lock, cellrec, ac, loc, cret, hist, rpc, rold, lvars, pvars>>

\* lines 362-369: wait_on_bit, interrupted or woken; then the cached error
\* while the record is still empty and not yet due for a retry
SetVlWait(c, track) ==
    /\ cpc[c] = "wait"
    /\ \/ /\ cellrec.no_lookup_yet
          /\ cret' = Ret(c, "afs_set_vl_cursor", "ERESTARTSYS", track)
          /\ cpc' = [cpc EXCEPT ![c] = "idle"]
       \/ /\ ~cellrec.no_lookup_yet
          /\ IF vl_addrs = NULL /\ cellrec.fresh
             THEN /\ cret' = Ret(c, "afs_set_vl_cursor", cellrec.error, track)
                  /\ cpc' = [cpc EXCEPT ![c] = "idle"]
             ELSE /\ cret' = cret
                  /\ cpc' = [cpc EXCEPT ![c] = "rlock"]
    /\ UNCHANGED <<lists, vl_addrs, lock, cellrec, ac, loc, hist, rpc, rold, lvars, pvars>>

\* line 372: read_lock(&cell->vl_addrs_lock)
SetVlReadLock(c) ==
    /\ cpc[c] = "rlock"
    /\ ~lock.writer
    /\ lock' = [lock EXCEPT !.readers = @ \cup {c}]
    /\ cpc' = [cpc EXCEPT ![c] = "deref"]
    /\ UNCHANGED <<lists, vl_addrs, cellrec, ac, loc, cret, hist, rpc, rold, lvars, pvars>>

\* lines 373-375: alist = cell->vl_addrs, then alist->nr_addrs is read; with
\* no list in the record that read is through a null pointer and the caller
\* dies with the read lock held
SetVlDeref(c) ==
    /\ cpc[c] = "deref"
    /\ loc' = [loc EXCEPT ![c] = vl_addrs]
    /\ cpc' = [cpc EXCEPT ![c] = IF vl_addrs = NULL THEN "oops" ELSE "get"]
    /\ UNCHANGED <<lists, vl_addrs, lock, cellrec, ac, cret, hist, rpc, rold, lvars, pvars>>

\* lines 375-378: a reference if the list has addresses, else no list
SetVlGet(c) ==
    /\ cpc[c] = "get"
    /\ IF lists[loc[c]].nr_addrs > 0
       THEN /\ lists' = afs_get_addrlist(lists, loc[c])
            /\ loc' = loc
       ELSE /\ lists' = lists
            /\ loc' = [loc EXCEPT ![c] = NULL]
    /\ cpc' = [cpc EXCEPT ![c] = "runlock"]
    /\ UNCHANGED <<vl_addrs, lock, cellrec, ac, cret, hist, rpc, rold, lvars, pvars>>

\* line 379: read_unlock(&cell->vl_addrs_lock)
SetVlReadUnlock(c) ==
    /\ cpc[c] = "runlock"
    /\ lock' = [lock EXCEPT !.readers = @ \ {c}]
    /\ cpc' = [cpc EXCEPT ![c] = "assign"]
    /\ UNCHANGED <<lists, vl_addrs, cellrec, ac, loc, cret, hist, rpc, rold, lvars, pvars>>

BindStartZero(l) == 0

\* line 387: READ_ONCE(alist->index)
BindStart(l) == lists[l].index

\* lines 381-390: -EDESTADDRREQ without a list, else the cursor is bound
SetVlAssign(c, track) ==
    /\ cpc[c] = "assign"
    /\ IF loc[c] = NULL
       THEN /\ cret' = Ret(c, "afs_set_vl_cursor", "EDESTADDRREQ", track)
            /\ UNCHANGED <<ac, hist>>
       ELSE /\ ac' = [ac EXCEPT ![c] = [@ EXCEPT !.alist = loc[c],
                                                 !.addr = NoAddr,
                                                 !.start = BindStart(loc[c]),
                                                 !.index = BindStart(loc[c]),
                                                 !.error = "0",
                                                 !.begun = FALSE]]
            /\ hist' = IF track
                       THEN [hist EXCEPT ![c] = [NoHist EXCEPT !.bindidx = lists[loc[c]].index]]
                       ELSE hist
            /\ cret' = Ret(c, "afs_set_vl_cursor", "0", track)
    /\ loc' = [loc EXCEPT ![c] = NULL]
    /\ cpc' = [cpc EXCEPT ![c] = "idle"]
    /\ UNCHANGED <<lists, vl_addrs, lock, cellrec, rpc, rold, lvars, pvars>>

-----------------------------------------------------------------------------
(* afs_iterate_addresses, mark_responded, afs_end_cursor *)

\* afs_iterate_addresses calls a caller makes between two binds, where the
\* history counts them
IterCap == AFS_MAX_ADDRESSES + 2

WrapNever(i, n) == i

WrapLate(i, n) == IF i > n THEN 0 ELSE i

\* lines 318-319: back to slot 0 at the end of the list
Wrap(i, n) == IF i = n THEN 0 ELSE i

IterateKeepsResponded(a) ==
    LET idx == IF a.begun THEN Wrap(a.index + 1, lists[a.alist].nr_addrs) ELSE a.index
    IN  IF a.begun /\ idx = a.start
        THEN [ac |-> [a EXCEPT !.index = idx, !.error = "EDESTADDRREQ"], val |-> "false"]
        ELSE [ac |-> [a EXCEPT !.index = idx, !.begun = TRUE, !.addr = <<a.alist, idx>>],
              val |-> "true"]

\* the cursor after lines 316-329, and what the call returns
IterateCursor(a) ==
    LET idx == IF a.begun THEN Wrap(a.index + 1, lists[a.alist].nr_addrs) ELSE a.index
    IN  IF a.begun /\ idx = a.start
        THEN [ac |-> [a EXCEPT !.index = idx, !.error = "EDESTADDRREQ"], val |-> "false"]
        ELSE [ac |-> [a EXCEPT !.index = idx, !.begun = TRUE, !.responded = FALSE,
                               !.addr = <<a.alist, idx>>],
              val |-> "true"]

afs_iterate_addresses(c, track) ==
    /\ cpc[c] = "idle"
    /\ track => hist[c].ncalls < IterCap
    /\ IF ac[c].alist = NULL
       THEN /\ ac' = ac
            /\ cret' = Ret(c, "afs_iterate_addresses", "false", track)
            /\ hist' = hist
       ELSE LET r == IterateCursor(ac[c]) IN
            /\ ac' = [ac EXCEPT ![c] = r.ac]
            /\ cret' = Ret(c, "afs_iterate_addresses", r.val, track)
            /\ hist' = IF track
                       THEN [hist EXCEPT ![c].ncalls = @ + 1,
                                         ![c].marked_since = IF r.val = "true" THEN FALSE ELSE @]
                       ELSE hist
    /\ UNCHANGED <<lists, vl_addrs, lock, cellrec, cpc, loc, rpc, rold, lvars, pvars>>

\* the caller's note that the endpoint tried last has answered
mark_responded(c, track) ==
    /\ cpc[c] = "idle"
    /\ ac' = [ac EXCEPT ![c].responded = TRUE]
    /\ hist' = IF track
               THEN [hist EXCEPT ![c].marked = TRUE, ![c].marked_since = TRUE]
               ELSE hist
    /\ UNCHANGED <<lists, vl_addrs, lock, cellrec, cpc, loc, cret, rpc, rold, lvars, pvars>>

PublishAlways(a) == TRUE

\* line 342: the index goes back to the list
Publish(a) == a.responded /\ a.index # a.start

UnbindKeepsList(a) == [a EXCEPT !.addr = NoAddr, !.begun = FALSE]

\* lines 347-350
Unbind(a) == [a EXCEPT !.addr = NoAddr, !.alist = NULL, !.begun = FALSE]

\* lines 340-343, and with no list lines 347-350 as well
EndCursorWrite(c, track) ==
    /\ cpc[c] = "idle"
    /\ IF ac[c].alist = NULL
       THEN /\ ac' = [ac EXCEPT ![c] = Unbind(@)]
            /\ cret' = Ret(c, "afs_end_cursor", ac[c].error, track)
            /\ UNCHANGED <<lists, cpc>>
       ELSE /\ lists' = IF Publish(ac[c])
                        THEN [lists EXCEPT ![ac[c].alist].index = ac[c].index]
                        ELSE lists
            /\ cpc' = [cpc EXCEPT ![c] = "end_put"]
            /\ UNCHANGED <<ac, cret>>
    /\ UNCHANGED <<vl_addrs, lock, cellrec, loc, hist, rpc, rold, lvars, pvars>>

\* lines 344-350
EndCursorPut(c, track) ==
    /\ cpc[c] = "end_put"
    /\ lists' = afs_put_addrlist(lists, ac[c].alist)
    /\ ac' = [ac EXCEPT ![c] = Unbind(@)]
    /\ cret' = Ret(c, "afs_end_cursor", ac[c].error, track)
    /\ cpc' = [cpc EXCEPT ![c] = "idle"]
    /\ UNCHANGED <<vl_addrs, lock, cellrec, loc, hist, rpc, rold, lvars, pvars>>

afs_set_vl_cursor(c, track) ==
    \/ SetVlEnter(c) \/ SetVlWait(c, track) \/ SetVlReadLock(c) \/ SetVlDeref(c)
    \/ SetVlGet(c) \/ SetVlReadUnlock(c) \/ SetVlAssign(c, track)

afs_end_cursor(c, track) == EndCursorWrite(c, track) \/ EndCursorPut(c, track)

-----------------------------------------------------------------------------
(* CursorSpec: one caller with his history, binding, iterating and releasing
   against the cell's lookups.  ConcSpec: all callers binding and releasing
   against the cell's lookups, no history. *)

CursorInit == ListIdle /\ ParseIdle /\ CursorIdle

CursorNext ==
    \/ afs_set_vl_cursor(1, TRUE)
    \/ afs_iterate_addresses(1, TRUE)
    \/ mark_responded(1, TRUE)
    \/ afs_end_cursor(1, TRUE)
    \/ CellStep(AFS_MAX_ADDRESSES, MaxLists)

CursorSpec == CursorInit /\ [][CursorNext]_vars

ConcNext ==
    \/ \E c \in Callers : afs_set_vl_cursor(c, FALSE) \/ afs_end_cursor(c, FALSE)
    \/ CellStep(ConcMaxNr, ConcLists)

ConcSpec == CursorInit /\ [][ConcNext]_vars

-----------------------------------------------------------------------------
(* Properties of the cursor *)

Bound(c) == ac[c].alist # NULL

\* C3: a cursor bound to a list of N addresses at start index s: the k-th
\* afs_iterate_addresses call since the bind, for k = 1..N, returned true and
\* selected slot (s + k - 1) mod N, and call N + 1 returned false with the
\* error -EDESTADDRREQ.
C3_CursorRing ==
    \A c \in Callers :
        Bound(c) =>
            LET a == ac[c]
                N == lists[a.alist].nr_addrs
                k == hist[c].ncalls
            IN  /\ N \in 1..AFS_MAX_ADDRESSES
                /\ a.start \in 0..(N - 1)
                /\ k \in 1..N =>
                      /\ cret[c] = [fn |-> "afs_iterate_addresses", val |-> "true"]
                      /\ a.index = (a.start + k - 1) % N
                      /\ a.addr = <<a.alist, a.index>>
                /\ k = N + 1 =>
                      /\ cret[c] = [fn |-> "afs_iterate_addresses", val |-> "false"]
                      /\ a.error = "EDESTADDRREQ"

\* a ring of the largest list, entered in the middle, has been exhausted
C3_Witness ==
    /\ Bound(1)
    /\ lists[ac[1].alist].nr_addrs = AFS_MAX_ADDRESSES
    /\ ac[1].start = 2
    /\ hist[1].ncalls = AFS_MAX_ADDRESSES + 1
    /\ cret[1].val = "false"

\* the two steps of afs_end_cursor on a bound cursor
ReleaseWrites(c) == cpc[c] = "idle" /\ cpc'[c] = "end_put"
ReleasePuts(c) == cpc[c] = "end_put" /\ cpc'[c] = "idle"

\* C4 as stated: a release leaves the cursor's index in the list if
\* mark_responded was called on the cursor since the bind and the index
\* differs from the start, and leaves the list's index alone otherwise.
C4_StickyIfEverMarked ==
    [][\A c \in Callers :
         LET l == ac[c].alist IN
         /\ ReleaseWrites(c) =>
               lists'[l].index = IF hist[c].marked /\ ac[c].index # ac[c].start
                                 THEN ac[c].index ELSE lists[l].index
         /\ ReleasePuts(c) => lists'[l].index = lists[l].index]_vars

\* C4, amended: a release leaves the cursor's index in the list if
\* mark_responded was called after the last afs_iterate_addresses call that
\* returned true and the index differs from the start, and leaves the list's
\* index alone otherwise.
C4_StickyIfMarkedSince ==
    [][\A c \in Callers :
         LET l == ac[c].alist IN
         /\ ReleaseWrites(c) =>
               lists'[l].index = IF hist[c].marked_since /\ ac[c].index # ac[c].start
                                 THEN ac[c].index ELSE lists[l].index
         /\ ReleasePuts(c) => lists'[l].index = lists[l].index]_vars

\* a release is under way that has moved the list's index
C4_Witness ==
    /\ cpc[1] = "end_put"
    /\ hist[1].marked_since
    /\ ac[1].index # ac[1].start
    /\ lists[ac[1].alist].index = ac[1].index
    /\ hist[1].bindidx # ac[1].index

\* the references to list l that somebody holds: the cell record, the
\* replacer (the list it has built, the list it has taken out), the cursors,
\* and the callers between afs_get_addrlist and the assignment
Refs(l) ==
    (IF vl_addrs = l THEN 1 ELSE 0)
    + (IF l = Len(lists) /\ rpc \in {"wlock", "swap"} THEN 1 ELSE 0)
    + (IF rold = l /\ rpc \in {"wunlock", "put"} THEN 1 ELSE 0)
    + Cardinality({c \in Callers : ac[c].alist = l})
    + Cardinality({c \in Callers : loc[c] = l /\ cpc[c] \in {"runlock", "assign"}})

\* C5: a list is handed to call_rcu at most once and only with its count at
\* zero, and no caller has a list in his cursor or in his hands that has been
\* handed to call_rcu.
C5_NoListDestroyedInUse ==
    \A l \in DOMAIN lists :
        /\ lists[l].scheduled <= 1
        /\ lists[l].scheduled > 0 => lists[l].usage = 0
        /\ \A c \in Callers : (ac[c].alist = l \/ loc[c] = l) => lists[l].scheduled = 0

\* one cursor still holds the list the replacer has taken out and put, the
\* other holds the list that replaced it
C5_Witness ==
    \E c, d \in Callers :
        /\ c # d
        /\ rpc = "idle"
        /\ Bound(c) /\ ac[c].alist # vl_addrs
        /\ lists[ac[c].alist].usage = 1
        /\ Bound(d) /\ ac[d].alist = vl_addrs

\* C10: with a list in the record, afs_set_vl_cursor leaves the read lock with
\* no list in hand if the list is empty and with the list otherwise; every
\* list's count is the number of its holders, one per bound cursor; a caller
\* who got -EDESTADDRREQ has no list; and a caller who got 0 has a cursor on a
\* list with addresses, start and index at the list's index, no error, not
\* begun.
C10_BindContract ==
    /\ \A l \in DOMAIN lists : lists[l].usage = Refs(l)
    /\ \A c \in Callers :
        /\ cpc[c] = "runlock" =>
              /\ vl_addrs # NULL
              /\ loc[c] = IF lists[vl_addrs].nr_addrs = 0 THEN NULL ELSE vl_addrs
        /\ cret[c] = [fn |-> "afs_set_vl_cursor", val |-> "EDESTADDRREQ"] => ~Bound(c)
        /\ Bound(c) => lists[ac[c].alist].nr_addrs > 0
        /\ cret[c] = [fn |-> "afs_set_vl_cursor", val |-> "0"] =>
              /\ Bound(c)
              /\ ac[c].start = lists[ac[c].alist].index
              /\ ac[c].index = ac[c].start
              /\ ac[c].start = hist[c].bindidx
              /\ ac[c].error = "0"
              /\ ~ac[c].begun

\* a bind has just succeeded on a list whose index an earlier cursor moved,
\* after a bind on an empty list had failed
C10_Witness ==
    /\ cret[1] = [fn |-> "afs_set_vl_cursor", val |-> "0"]
    /\ ac[1].start > 0
    /\ lists[ac[1].alist].usage = 2
    /\ ac[1].error = "0"

-----------------------------------------------------------------------------
(* WellSpec: one call of afs_parse_text_addrs on a text written from a
   sequence of addresses *)

\* the hosts the texts are written from, with the address each one names
Hosts ==
    {[chars |-> <<"1", "0", ".", "0", ".", "0", ".", "2">>,
      family |-> "AF_INET", x |-> <<In4(10, 0, 0, 2)>>],
     [chars |-> <<"1", "0", ".", "0", ".", "0", ".", "1">>,
      family |-> "AF_INET", x |-> <<In4(10, 0, 0, 1)>>],
     [chars |-> <<":", ":", "1">>,
      family |-> "AF_INET6", x |-> <<0, 0, 0, In4(0, 0, 0, 1)>>]}

\* the port suffixes: none, or these digits
PortTexts == {<<>>, <<"7", "0", "0", "0">>}

\* the number a string of decimal digits writes
RECURSIVE DecVal(_)
DecVal(ds) ==
    IF ds = <<>> THEN 0
    ELSE 10 * DecVal(SubSeq(ds, 1, Len(ds) - 1)) + HexVal[ds[Len(ds)]]

WellEntries == [host : Hosts, bracket : BOOLEAN, digits : PortTexts]

\* addr := ("[" host "]" | host) ("+" digits)?
RenderAddr(e) ==
    (IF e.bracket THEN <<"[">> \o e.host.chars \o <<"]">> ELSE e.host.chars)
    \o (IF e.digits = <<>> THEN <<>> ELSE <<"+">> \o e.digits)

\* list := addr (sep addr)*
RECURSIVE Render(_, _)
Render(es, sep) ==
    IF Len(es) = 1 THEN RenderAddr(es[1])
    ELSE RenderAddr(es[1]) \o <<sep>> \o Render(Tail(es), sep)

\* an IPv6 host holds ':' and is one address between ':' only in brackets
Separable(es, sep) ==
    \A i \in 1..Len(es) : (sep = ":" /\ es[i].host.family = "AF_INET6") => es[i].bracket

WellInit ==
    /\ ListIdle
    /\ CursorIdle
    /\ \E n \in 1..Min({MaxWell, AFS_MAX_ADDRESSES}) : want \in [1..n -> WellEntries]
    /\ delim \in {",", ":"}
    /\ \E sep \in {",", ":"} :
         /\ Separable(want, sep)
         /\ text = Render(want, sep)
         /\ sep = EffectiveDelim(text, delim)
    /\ p = 0 /\ nr = 0 /\ ppc = "start" /\ ret = "none"
    /\ kfreed = FALSE /\ nmerged = 0 /\ badseg = FALSE

WellSpec == WellInit /\ [][ParseNext]_vars

-----------------------------------------------------------------------------
(* Properties of afs_parse_text_addrs on texts written from addresses *)

\* the (family, address, port) an entry of the text names
PairOf(e) ==
    [family |-> e.host.family,
     x      |-> e.host.x,
     port   |-> IF e.digits = <<>> THEN AFS_VL_PORT ELSE DecVal(e.digits)]

WantPairs == {PairOf(want[i]) : i \in 1..Len(want)}

\* what slot k of a list says to its reader
SlotView(l, k) ==
    [family |-> l.addrs[k].family,
     x      |-> IF l.addrs[k].family = "AF_INET"
                THEN <<l.addrs[k].s_addr>> ELSE l.addrs[k].sin6_addr,
     port   |-> ntohs(l.addrs[k].port)]

ListView(l) == [k \in 0..(l.nr_addrs - 1) |-> SlotView(l, k)]

\* the bytes of an address in memory (network) order
AddrBytes(x) == [k \in 0..(4 * Len(x) - 1) |-> ByteOf(x[(k \div 4) + 1], k % 4)]

\* ascending order of two pairs of one family: by address, the most
\* significant byte first, then by port
PairLess(a, b) ==
    LET ba == AddrBytes(a.x)
        bb == AddrBytes(b.x)
    IN  \/ \E k \in DOMAIN ba : ba[k] < bb[k] /\ \A j \in 0..(k - 1) : ba[j] = bb[j]
        \/ a.x = b.x /\ a.port < b.port

\* list v holds exactly the pairs S: the IPv4 pairs first, each family
\* ascending, nothing twice
HoldsSorted(l, S) ==
    LET v  == ListView(l)
        n4 == Cardinality({q \in S : q.family = "AF_INET"})
    IN  /\ l.nr_addrs = Cardinality(S)
        /\ l.nr_ipv4 = n4
        /\ {v[k] : k \in DOMAIN v} = S
        /\ \A k \in DOMAIN v : (v[k].family = "AF_INET") <=> (k < n4)
        /\ \A i, j \in DOMAIN v :
              (i < j /\ v[i].family = v[j].family) => PairLess(v[i], v[j])

ExampleText ==
    <<"1", "0", ".", "0", ".", "0", ".", "2", ",",
      "1", "0", ".", "0", ".", "0", ".", "1", ",",
      "[", ":", ":", "1", "]", "+", "7", "0", "0", "0">>

ExampleList ==
    <<[family |-> "AF_INET", x |-> <<In4(10, 0, 0, 1)>>, port |-> AFS_VL_PORT],
      [family |-> "AF_INET", x |-> <<In4(10, 0, 0, 2)>>, port |-> AFS_VL_PORT],
      [family |-> "AF_INET6", x |-> <<0, 0, 0, In4(0, 0, 0, 1)>>, port |-> 7000]>>

IsExampleList(l) ==
    /\ l.nr_addrs = 3
    /\ l.nr_ipv4 = 2
    /\ \A k \in 0..2 : SlotView(l, k) = ExampleList[k + 1]

\* C11: a call on a text written from k <= AFS_MAX_ADDRESSES addresses, each
\* with or without brackets and port, that got its memory returns a list that
\* holds exactly the distinct (address, port) pairs of the text, the default
\* port where the text gives none, IPv4 first, each family ascending; and
\* "10.0.0.2,10.0.0.1,[::1]+7000" gives 10.0.0.1:P, 10.0.0.2:P, ::1:7000.
C11_ParsedListIsTheTextsPairs ==
    (ppc = "done" /\ want # <<>> /\ ret # "ENOMEM") =>
        /\ ret = "LIST"
        /\ ~kfreed
        /\ HoldsSorted(alist, WantPairs)
        /\ text = ExampleText => IsExampleList(alist)

\* the example text has been parsed into the example list
C11_Witness ==
    /\ ppc = "done"
    /\ text = ExampleText
    /\ delim = ","
    /\ ret = "LIST"
    /\ IsExampleList(alist)

-----------------------------------------------------------------------------
(* PortSpec: one call of afs_parse_text_addrs on a text of addresses with
   port suffixes good and bad *)

\* what may follow a host: nothing, a '+' alone, a '+' and no digit, ports
\* in range (0, leading zeros, the largest), ports out of range (the smallest,
\* one past the largest value of ten times a port plus a digit, one past 2^32)
PortSuffixes ==
    {<<>>, <<"+">>, <<"+", "z">>,
     <<"+", "0">>, <<"+", "7", "0", "0", "0">>, <<"+", "6", "5", "5", "3", "5">>,
     <<"+", "0", "0", "6", "5", "5", "3", "5">>,
     <<"+", "6", "5", "5", "3", "6">>, <<"+", "6", "5", "5", "3", "6", "0">>,
     <<"+", "4", "2", "9", "4", "9", "6", "7", "2", "9", "7">>}

\* the hosts in front of them
PortHosts ==
    {<<"1", "0", ".", "0", ".", "0", ".", "1">>, <<":", ":", "1">>, <<"[", ":", ":", "1", "]">>}

PortEntries == [host : PortHosts, suffix : PortSuffixes]

RECURSIVE RenderPorted(_)
RenderPorted(es) ==
    IF Len(es) = 1 THEN es[1].host \o es[1].suffix
    ELSE es[1].host \o es[1].suffix \o <<",">> \o RenderPorted(Tail(es))

PortInit ==
    /\ ListIdle
    /\ CursorIdle
    /\ \E n \in 1..MaxPorted : want \in [1..n -> PortEntries]
    /\ text = RenderPorted(want)
    /\ delim = ","
    /\ p = 0 /\ nr = 0 /\ ppc = "start" /\ ret = "none"
    /\ kfreed = FALSE /\ nmerged = 0 /\ badseg = FALSE

PortSpec == PortInit /\ [][ParseNext]_vars

\* the number a string of decimal digits writes, 65536 standing for all
\* numbers above 65535
RECURSIVE SatVal(_)
SatVal(ds) ==
    IF ds = <<>> THEN 0
    ELSE LET v == 10 * SatVal(SubSeq(ds, 1, Len(ds) - 1)) + HexVal[ds[Len(ds)]]
         IN  IF v > 65535 THEN 65536 ELSE v

\* ("+" digit+)? with a value that is a port
SuffixOk(sfx) ==
    \/ sfx = <<>>
    \/ /\ Len(sfx) >= 2
       /\ sfx[1] = "+"
       /\ \A k \in 2..Len(sfx) : isdigit(sfx[k])
       /\ SatVal(Tail(sfx)) <= 65535

PortedPair(e) ==
    [family |-> IF e.host[1] = "1" THEN "AF_INET" ELSE "AF_INET6",
     x      |-> IF e.host[1] = "1" THEN <<In4(10, 0, 0, 1)>> ELSE <<0, 0, 0, In4(0, 0, 0, 1)>>,
     port   |-> IF e.suffix = <<>> THEN AFS_VL_PORT ELSE SatVal(Tail(e.suffix))]

\* the accumulator of the port loop run over the digits ds: it ends at the
\* value of the digits if that is a port, and else stops at the first value
\* above 65535, which is below ten times 65536
AccumulatorInRange(ds) ==
    LET r == PortLoop(ds, 0, 0) IN
    /\ r.ok <=> SatVal(ds) <= 65535
    /\ r.ok => r.xport = SatVal(ds)
    /\ ~r.ok => (r.xport > 65535 /\ r.xport < 655360)

\* C12: a '+' after the host needs a digit behind it, the digits' value is
\* the port of that one address and of no other, an address without suffix
\* gets the default port, a value above 65535 or a '+' without digit gives
\* -EINVAL, and the accumulator stays below ten times 65536.
C12_PortSuffix ==
    (ppc = "done" /\ want # <<>> /\ ret # "ENOMEM") =>
        /\ IF \A i \in 1..Len(want) : SuffixOk(want[i].suffix)
           THEN /\ ret = "LIST"
                /\ HoldsSorted(alist, {PortedPair(want[i]) : i \in 1..Len(want)})
           ELSE ret = "EINVAL" /\ kfreed
        /\ \A i \in 1..Len(want) :
              (Len(want[i].suffix) >= 2 /\ isdigit(want[i].suffix[2])) =>
                  AccumulatorInRange(Tail(want[i].suffix))

\* one host with the largest port and the same host with the default port
C12_Witness ==
    /\ ppc = "done"
    /\ ret = "LIST"
    /\ Len(want) = 2
    /\ want[1].suffix = <<"+", "6", "5", "5", "3", "5">>
    /\ want[2].suffix = <<>>
    /\ want[1].host = want[2].host
    /\ alist.nr_addrs = 2
    /\ {SlotView(alist, 0).port, SlotView(alist, 1).port} = {AFS_VL_PORT, 65535}

-----------------------------------------------------------------------------
(* Properties of the delimiter *)

HasChar(t, c) == \E k \in 1..Len(t) : t[k] = c

OneLoopback6(l) ==
    /\ l.nr_addrs = 1
    /\ l.nr_ipv4 = 0
    /\ SlotView(l, 0) = [family |-> "AF_INET6", x |-> <<0, 0, 0, In4(0, 0, 0, 1)>>,
                         port |-> AFS_VL_PORT]

\* C13: past its entry the call works with ',' if the caller passed ':' and
\* the text holds a ',' or holds no '.', and with the caller's delimiter in
\* every other case; and the text "::1", whatever delimiter of these the
\* caller passed, comes back as a list of the one IPv6 address ::1.
C13_EffectiveDelimiter ==
    [][/\ (ppc = "start" /\ ppc' = "count") =>
            delim' = IF delim = ":" /\ (HasChar(text, ",") \/ ~HasChar(text, "."))
                     THEN "," ELSE delim
       /\ (ppc' = "done" /\ text = <<":", ":", "1">> /\ ret' # "ENOMEM") =>
            (ret' = "LIST" /\ OneLoopback6(alist'))]_vars

\* the text "::1" has come back as a list of one IPv6 address
C13_Witness ==
    /\ ppc = "done"
    /\ text = <<":", ":", "1">>
    /\ delim = ","
    /\ ret = "LIST"
    /\ OneLoopback6(alist)

-----------------------------------------------------------------------------
(* The grammar of the address texts
     list := addr (delim addr)*
     addr := ("[" ipv6 "]" | ipv4 | ipv6) ("+" digit+)?                     *)

IsIPv4(h) == LET r == in4_pton(h) IN r.ok /\ r.stop = Len(h)

IsIPv6(h) == LET r == in6_pton(h) IN r.ok /\ r.stop = Len(h)

IsHost(h) ==
    \/ IsIPv4(h)
    \/ IsIPv6(h)
    \/ /\ Len(h) >= 3
       /\ h[1] = "[" /\ h[Len(h)] = "]"
       /\ IsIPv6(SubSeq(h, 2, Len(h) - 1))

IsPortSuffix(r) ==
    \/ r = <<>>
    \/ /\ Len(r) >= 2
       /\ r[1] = "+"
       /\ \A k \in 2..Len(r) : isdigit(r[k])

IsAddr(seg) ==
    \E k \in 1..Len(seg) :
        IsHost(SubSeq(seg, 1, k)) /\ IsPortSuffix(SubSeq(seg, k + 1, Len(seg)))

\* the text from offset i on is addr (delim addr)*
RECURSIVE IsListFrom(_, _, _)
IsListFrom(t, d, i) ==
    \E j \in (i + 1)..Len(t) :
        /\ IsAddr(SubSeq(t, i + 1, j))
        /\ \/ j = Len(t)
           \/ j + 1 < Len(t) /\ t[j + 1] = d /\ IsListFrom(t, d, j + 1)

\* C14: the empty text gives -EDESTADDRREQ and no list is allocated; a text
\* that is not addr (delim addr)* gives -EINVAL and no list is left.
C14_ErrorTaxonomy ==
    ppc = "done" =>
        /\ Len(text) = 0 => (ret = "EDESTADDRREQ" /\ alist = NoList)
        /\ (Len(text) > 0 /\ ~IsListFrom(text, delim, 0) /\ ret # "ENOMEM") =>
              (ret = "EINVAL" /\ (alist = NoList \/ kfreed))

-----------------------------------------------------------------------------
(* More properties of the cursor *)

\* caller c has just been told by afs_iterate_addresses that the ring of his
\* binding is used up
Exhausted(c) ==
    /\ Bound(c)
    /\ cret[c] = [fn |-> "afs_iterate_addresses", val |-> "false"]

\* the step is a call of afs_iterate_addresses by caller c
Iterates(c) == hist'[c].ncalls = hist[c].ncalls + 1

\* C15: once afs_iterate_addresses has returned false on a binding, the next
\* call on that binding returns false as well and selects nothing.
C15_ExhaustedIsTerminal ==
    [][\A c \in Callers :
         (Exhausted(c) /\ Iterates(c)) =>
             /\ cret'[c] = [fn |-> "afs_iterate_addresses", val |-> "false"]
             /\ ac'[c].addr = ac[c].addr]_vars

\* C16: a release changes the list's index only to the slot that the last
\* afs_iterate_addresses call of the binding selected, and only if
\* mark_responded was called after that call; a responded flag left over from
\* an earlier binding of the same cursor publishes nothing.
C16_HintNamesResponder ==
    [][\A c \in Callers :
         LET l == ac[c].alist IN
         (ReleaseWrites(c) /\ lists'[l].index # lists[l].index) =>
             /\ hist[c].ncalls > 0
             /\ hist[c].marked_since
             /\ cret[c] = [fn |-> "afs_iterate_addresses", val |-> "true"]
             /\ ac[c].addr = <<l, lists'[l].index>>]_vars

\* a cursor is being released whose responded flag is left over from an
\* earlier binding: the list's index stays where the earlier release put it
C16_Witness ==
    /\ cpc[1] = "end_put"
    /\ ac[1].responded
    /\ ~hist[1].marked
    /\ hist[1].ncalls = 0
    /\ lists[ac[1].alist].index > 0
    /\ lists[ac[1].alist].index = hist[1].bindidx

\* the step is made by caller c on his unbound cursor, from call to return
UnboundCall(c) ==
    /\ ac[c].alist = NULL
    /\ cpc[c] = "idle" /\ cpc' = cpc
    /\ rpc' = rpc /\ cellrec' = cellrec
    /\ \A d \in Callers \ {c} : ac'[d] = ac[d] /\ cret'[d] = cret[d]

\* no list has lost a reference, been handed to call_rcu or had its index
\* written
ListsUntouched == lists' = lists

\* C18: afs_end_cursor on a bound cursor, whatever afs_iterate_addresses has
\* returned on it, takes one reference from the cursor's list and from no
\* other, and leaves the cursor without a list; until the next bind every
\* call on the cursor leaves all lists as they are and the cursor without
\* list and endpoint, and afs_iterate_addresses returns false.
C18_ReleaseUnbindsOnce ==
    [][\A c \in Callers :
         LET l == ac[c].alist IN
         /\ ReleaseWrites(c) =>
               /\ \A k \in DOMAIN lists :
                     /\ lists'[k].usage = lists[k].usage
                     /\ lists'[k].scheduled = lists[k].scheduled
               /\ ac'[c] = ac[c]
         /\ ReleasePuts(c) =>
               /\ lists[l].usage >= 1
               /\ lists'[l].usage = lists[l].usage - 1
               /\ lists'[l].index = lists[l].index
               /\ \A k \in DOMAIN lists \ {l} : lists'[k] = lists[k]
               /\ ac'[c].alist = NULL /\ ac'[c].addr = NoAddr /\ ~ac'[c].begun
               /\ cret'[c] = [fn |-> "afs_end_cursor", val |-> ac[c].error]
         /\ UnboundCall(c) =>
               /\ ListsUntouched
               /\ ac'[c].alist = NULL /\ ac'[c].addr = NoAddr /\ ~ac'[c].begun
               /\ cret'[c].fn = "afs_iterate_addresses" => cret'[c].val = "false"
               /\ cret'[c].fn = "afs_end_cursor" => cret'[c].val = ac[c].error]_vars

\* an exhausted cursor has been released, the list is back to the record's
\* one reference, and afs_iterate_addresses has been called on the unbound
\* cursor
C18_Witness ==
    /\ ac[1].alist = NULL
    /\ cpc[1] = "idle"
    /\ hist[1].ncalls > 1
    /\ ac[1].error = "EDESTADDRREQ"
    /\ cret[1] = [fn |-> "afs_iterate_addresses", val |-> "false"]
    /\ vl_addrs # NULL
    /\ lists[vl_addrs].usage = 1

\* caller c has read nr_addrs at line 375 through the null pointer he took
\* from a record without a list
ReadAbsentList(c) == cpc[c] = "oops"

\* C19: afs_set_vl_cursor reads no field of an absent list: with the record
\* still without a list after the wait, the call returns an error and does
\* not go on to the read of nr_addrs, before dns_expiry and after.
C19_NoAbsentListRead == \A c \in Callers : ~ReadAbsentList(c)

-----------------------------------------------------------------------------
(* The order of the merges *)

\* C20: while the distinct (family, address, port) asked of a fresh list are
\* no more than max_addrs, the list is, in whatever order and however often
\* they were asked, the distinct IPv4 pairs ascending followed by the
\* distinct IPv6 pairs ascending.
C20_MergeOrderIndependent ==
    (alist # NoList /\ asked # TooMany) => HoldsSorted(alist, asked)

\* a list filled to its capacity with both families, where the last merge
\* put an IPv4 pair in front of all that was there, IPv6 included
C20_Witness ==
    /\ alist # NoList
    /\ asked # TooMany
    /\ alist.max_addrs = AFS_MAX_ADDRESSES
    /\ alist.nr_addrs = alist.max_addrs
    /\ alist.nr_ipv4 = 2
    /\ call.op = "merge4"
    /\ before # NoList
    /\ before.nr_addrs = alist.nr_addrs - 1
    /\ SlotView(alist, 0) = [family |-> "AF_INET", x |-> call.xdr, port |-> call.port]

-----------------------------------------------------------------------------
(* RaceSpec: two callers binding, iterating, marking and releasing
   concurrently with the replacer, no history; every list is of the largest
   size, where the ring is longest *)

RaceCallers == {1, 2}

Replacer(minn, maxn, maxlists) ==
    RBuild(minn, maxn, maxlists) \/ RWriteLock \/ RSwap \/ RWriteUnlock \/ RPut

RaceNext ==
    \/ \E c \in RaceCallers :
         \/ afs_set_vl_cursor(c, FALSE)
         \/ afs_iterate_addresses(c, FALSE)
         \/ mark_responded(c, FALSE)
         \/ afs_end_cursor(c, FALSE)
    \/ Replacer(RaceMaxNr, RaceMaxNr, RaceLists)

RaceSpec == CursorInit /\ [][RaceNext]_vars

\* C17: the index of every list with addresses is below its nr_addrs, and
\* start, index and the selected slot of every bound cursor are below the
\* nr_addrs of the cursor's list.
C17_IndicesInRange ==
    /\ \A l \in DOMAIN lists :
          lists[l].nr_addrs > 0 => lists[l].index \in 0..(lists[l].nr_addrs - 1)
    /\ \A c \in Callers :
          Bound(c) =>
              LET n == lists[ac[c].alist].nr_addrs IN
              /\ ac[c].start \in 0..(n - 1)
              /\ ac[c].index \in 0..(n - 1)
              /\ ac[c].addr # NoAddr =>
                    (ac[c].addr[1] = ac[c].alist /\ ac[c].addr[2] \in 0..(n - 1))

\* two cursors on the largest list: one bound before and one bound after a
\* release moved the list's index to the last slot, the second wrapped round
\* to slot 0
C17_Witness ==
    \E l \in DOMAIN lists :
        /\ lists[l].nr_addrs = RaceMaxNr
        /\ lists[l].index = RaceMaxNr - 1
        /\ ac[1].alist = l /\ ac[1].start = 0
        /\ ac[2].alist = l /\ ac[2].start = RaceMaxNr - 1
        /\ ac[2].addr = <<l, 0>>

====
